---- MODULE Spec2Model ----
(***************************************************************************)
(* University election API (src/main.py, src/helper.py): voter registry,   *)
(* election registry and vote casting over two document collections.       *)
(*                                                                         *)
(* A string is a sequence of characters, each character a one-character    *)
(* TLA+ string, so that len(), slicing, isnumeric(), isalpha() and         *)
(* endswith() are computed as Python computes them.  The character "^2"    *)
(* stands for U+00B2 (superscript two): numeric for str.isnumeric(), but   *)
(* not accepted by int().                                                  *)
(*                                                                         *)
(* Every handler is an operator from the documents it reads and its        *)
(* request to an outcome: the response it returns and the documents it     *)
(* sets or deletes.  An unhandled Python exception is a response of        *)
(* status 500 that names the exception.                                    *)
(*                                                                         *)
(* Spec handles one request at a time, each by its handler; DispatchSpec   *)
(* passes every request through voting_system; CodecSpec applies           *)
(* valid_student_id to a string; ConcurrentSpec interleaves vote requests  *)
(* between their read and their write; RegistrySpec handles the requests   *)
(* of the voter registry alone, over payloads with values that are not     *)
(* decimal or not strings; RaceSpec interleaves Update voter requests,     *)
(* between their read and their write, with Deregister requests.           *)
(***************************************************************************)
EXTENDS Integers, Sequences, FiniteSets, TLC

VARIABLES
    voters,     \* VOTERS_COLLECTION: document id -> voter record
    elections,  \* ELECTIONS_COLLECTION: document id -> election document
    codec,      \* a call of valid_student_id: its argument and its result
    votes,      \* the vote requests in progress, one per worker
    updates     \* the Update voter requests in progress, one per worker

vars == <<voters, elections, codec, votes, updates>>

(***************************************************************************)
(* Characters and strings                                                  *)
(***************************************************************************)
Digits == {"0", "1", "2", "3", "4", "5", "6", "7", "8", "9"}

SuperscriptTwo == "^2"

NumericChars == Digits \cup {SuperscriptTwo}

Letters ==
    {"a", "b", "c", "d", "e", "f", "g", "h", "i", "j", "k", "l", "m",
     "n", "o", "p", "q", "r", "s", "t", "u", "v", "w", "x", "y", "z",
     "A", "B", "C", "D", "E", "F", "G", "H", "I", "J", "K", "L", "M",
     "N", "O", "P", "Q", "R", "S", "T", "U", "V", "W", "X", "Y", "Z"}

DigitValue ==
    ("0" :> 0) @@ ("1" :> 1) @@ ("2" :> 2) @@ ("3" :> 3) @@ ("4" :> 4) @@
    ("5" :> 5) @@ ("6" :> 6) @@ ("7" :> 7) @@ ("8" :> 8) @@ ("9" :> 9)

\* str.isnumeric(): non-empty and every character numeric
isnumeric(s) == Len(s) > 0 /\ \A i \in 1..Len(s) : s[i] \in NumericChars

\* str.isalpha(): non-empty and every character a letter
isalpha(s) == Len(s) > 0 /\ \A i \in 1..Len(s) : s[i] \in Letters

\* the JSON literal true as a payload value: the one value that is not a
\* string
JsonTrue == <<"true">>

\* str(value): a string is itself, True is "True"
str(value) ==
    IF value = JsonTrue THEN <<"T", "r", "u", "e">> ELSE value

\* str.endswith(suffix)
endswith(s, suffix) ==
    /\ Len(s) >= Len(suffix)
    /\ SubSeq(s, Len(s) - Len(suffix) + 1, Len(s)) = suffix

\* int(s) raises ValueError unless every character is a decimal digit
int_raises(s) == Len(s) = 0 \/ \E i \in 1..Len(s) : s[i] \notin Digits

RECURSIVE int(_)
int(s) == IF Len(s) = 0 THEN 0
          ELSE 10 * int(SubSeq(s, 1, Len(s) - 1)) + DigitValue[s[Len(s)]]

(***************************************************************************)
(* helper.py                                                               *)
(***************************************************************************)
FIRST_YEAR_GROUP == 2002

EmailSuffix ==
    <<"@", "a", "s", "h", "e", "s", "i", ".", "e", "d", "u", ".", "g", "h">>

VOTERS_KEYS == <<"student_id", "firstname", "lastname", "email">>

ELECTION_KEYS ==
    <<"election_code", "election_name", "election_startdate",
      "election_period", "positions">>

VOTING_KEYS == <<"student_id", "candidate_id">>

\* A request payload is a JSON object: a function from the keys present.
Has(payload, key) == key \in DOMAIN payload

\* dict.get(key) is truthy: the key is present with a non-empty string
Truthy(payload, key) == Has(payload, key) /\ payload[key] # <<>>

\* a JSON boolean field is present and true
TruthyFlag(payload, key) == Has(payload, key) /\ payload[key] = TRUE

\* valid_request_body: the body is not empty
valid_request_body(data) == DOMAIN data # {}

\* valid_keys: is_valid iff every expected key is present; message lists,
\* in the order of expected_keys, the keys that are required and missing
valid_keys(info, expected_keys) ==
    LET missing == SelectSeq(expected_keys, LAMBDA key : ~Has(info, key))
    IN  [is_valid |-> missing = <<>>, message |-> missing]

\* key_is_unique comparing against the registered voters only
key_is_unique_registered(key_list, dictionary_list, voter_info) ==
    {key \in key_list :
        \E voter \in dictionary_list :
            /\ voter_info[key] = voter[key]
            /\ voter["student_id"] # voter_info["student_id"]
            /\ voter["is_registered"] = TRUE}

\* key_is_unique: the keys of key_list on which voter_info equals a record
\* of dictionary_list that has another student_id
key_is_unique(key_list, dictionary_list, voter_info) ==
    {key \in key_list :
        \E voter \in dictionary_list :
            /\ voter_info[key] = voter[key]
            /\ voter["student_id"] # voter_info["student_id"]}

\* valid_student_id: False unless 8 characters long and numeric
valid_student_id(student_id) ==
    IF Len(student_id) # 8 THEN [valid |-> FALSE]
    ELSE IF ~isnumeric(student_id) THEN [valid |-> FALSE]
    ELSE [valid |-> TRUE,
          user_id |-> SubSeq(student_id, 1, 4),
          year_group |-> SubSeq(student_id, 5, 8)]

(***************************************************************************)
(* Responses and outcomes                                                  *)
(***************************************************************************)
NoWrites == [k \in {} |-> TRUE]

Response(status, message) == [status |-> status, message |-> message]

\* a handler's return without any store write
Return(status, message, body) ==
    [response |-> Response(status, message), body |-> body,
     voters_set |-> NoWrites, elections_set |-> NoWrites,
     elections_delete |-> {}]

\* an exception that leaves the handler (the framework answers 500)
Raise(exception) == Return(500, exception, <<>>)

\* CollectionReference.document(key).set(record), for each key of writes
DocumentSet(collection, writes) ==
    [k \in DOMAIN collection \cup DOMAIN writes |->
        IF k \in DOMAIN writes THEN writes[k] ELSE collection[k]]

\* CollectionReference.document(key).delete(), for each key of keys
DocumentDelete(collection, keys) ==
    [k \in DOMAIN collection \ keys |-> collection[k]]

\* the records of a collection (CollectionReference.get() and to_dict())
Records(collection) == {collection[k] : k \in DOMAIN collection}

\* valid_voter_info: a (response, status) tuple when a validation fails,
\* a bare response when the year group is below FIRST_YEAR_GROUP, and
\* {"data": voter_info} when the payload passes
valid_voter_info(voters_data, data, unique_keys) ==
    IF ~valid_request_body(data)
    THEN [kind |-> "tuple",
          outcome |-> Return(400, "Voter information missing!", <<>>)]
    ELSE LET validate_data == valid_keys(data, VOTERS_KEYS) IN
    IF ~validate_data.is_valid
    THEN [kind |-> "tuple",
          outcome |-> Return(400, "is required", validate_data.message)]
    ELSE LET student_id_is_valid == valid_student_id(data["student_id"]) IN
    IF ~student_id_is_valid.valid
    THEN [kind |-> "tuple",
          outcome |-> Return(400, "Student ID is not valid.", <<>>)]
    ELSE IF int_raises(student_id_is_valid.year_group)
    THEN [kind |-> "raise", outcome |-> Raise("ValueError")]
    ELSE IF int(student_id_is_valid.year_group) < FIRST_YEAR_GROUP
    THEN [kind |-> "response",
          outcome |-> Return(200, "Student year group is invalid.", <<>>)]
    ELSE IF ~endswith(data["email"], EmailSuffix)
    THEN [kind |-> "tuple",
          outcome |-> Return(400,
                        "Email must be a valid Ashesi email address.", <<>>)]
    ELSE IF \/ ~isalpha(str(data["firstname"]))
               \/ ~isalpha(str(data["lastname"]))
    THEN [kind |-> "tuple",
          outcome |-> Return(400,
                        "Firstname or Lastname must be a string.", <<>>)]
    ELSE IF DOMAIN voters_data = {}
    THEN [kind |-> "data", data |-> data]
    ELSE LET ununique_result ==
                 key_is_unique(unique_keys, Records(voters_data), data) IN
    IF ununique_result # {}
    THEN [kind |-> "tuple",
          outcome |-> Return(400, "already exists!", ununique_result)]
    ELSE [kind |-> "data", data |-> data]

\* voter_info["is_registered"] = value
SetRegistered(voter_info, value) ==
    [k \in DOMAIN voter_info \cup {"is_registered"} |->
        IF k = "is_registered" THEN value ELSE voter_info[k]]

(***************************************************************************)
(* main.py: voter registry                                                 *)
(***************************************************************************)
\* register_voter (POST voters)
register_voter(voters_data, data) ==
    IF ~valid_request_body(data)
    THEN Return(400, "Voter information missing!", <<>>)
    ELSE LET result == valid_voter_info(voters_data, data,
                                        {"student_id", "email"}) IN
    IF result.kind \in {"tuple", "raise"} THEN result.outcome
    ELSE IF result.kind = "response"
    THEN Raise("TypeError")     \* response["data"] on a Response object
    ELSE LET voter_info == SetRegistered(result.data, TRUE) IN
         [response |-> Response(201, "created"), body |-> voter_info,
          voters_set |-> (voter_info["student_id"] :> voter_info),
          elections_set |-> NoWrites, elections_delete |-> {}]

\* deregister_voter: the comparison that selects the voters to update
deregister_matches_user_id(key, value, voter) ==
    IF key = "student_id" THEN voter["student_id"] = value
    ELSE valid_student_id(voter["student_id"]).user_id = value

deregister_matches(key, value, voter) ==
    IF key = "student_id" THEN voter["student_id"] = value
    ELSE valid_student_id(voter["student_id"])[key] = value

\* deregister_voter, after value is chosen and the key is disambiguated
deregister_by(voters_data, key, value) ==
    LET updated_voters ==
            {k \in DOMAIN voters_data :
                deregister_matches(key, value, voters_data[k])}
    IN  IF updated_voters = {} /\ key = "student_id"
        THEN Return(404, "student has not been registered as a voter!", <<>>)
        ELSE IF updated_voters = {} /\ key = "year_group"
        THEN Return(404, "No registered voter in the year group!", <<>>)
        ELSE LET writes ==
                     [k \in updated_voters |->
                         SetRegistered(voters_data[k], FALSE)]
             IN  [response |-> Response(200, "de-registered!"),
                  body |-> writes,
                  voters_set |->
                     [k \in {writes[j]["student_id"] : j \in updated_voters}
                        |-> CHOOSE w \in Records(writes) :
                                w["student_id"] = k],
                  elections_set |-> NoWrites, elections_delete |-> {}]

\* deregister_voter (PATCH voters)
deregister_voter(voters_data, data) ==
    IF ~Truthy(data, "student_id") /\ ~Truthy(data, "year_group")
    THEN Return(400, "Invalid attribute!", <<>>)
    ELSE LET value == IF Truthy(data, "student_id")
                      THEN data["student_id"] ELSE data["year_group"] IN
    IF Len(value) = 4 /\ isnumeric(value) /\ int_raises(value)
    THEN Raise("ValueError")
    ELSE IF Len(value) = 4 /\ isnumeric(value)
            /\ int(value) >= FIRST_YEAR_GROUP
    THEN deregister_by(voters_data, "year_group", value)
    ELSE IF ~valid_student_id(value).valid
    THEN Return(400, "Invalid student id!", <<>>)
    ELSE deregister_by(voters_data, "student_id", value)

\* update_voter with the check of the stored record's is_registered left out
update_stored_unchecked(voters_data, voter_info) ==
    IF DOMAIN voters_data = {}
    THEN [response |-> Response(200, "updated"), body |-> voter_info,
          voters_set |-> (voter_info["student_id"] :> voter_info),
          elections_set |-> NoWrites, elections_delete |-> {}]
    ELSE LET target == {k \in DOMAIN voters_data :
                           voters_data[k]["student_id"]
                               = voter_info["student_id"]}
             updated_voters_data ==
                 {IF k \in target THEN SetRegistered(voter_info, TRUE)
                  ELSE voters_data[k] : k \in DOMAIN voters_data}
         IN  [response |-> Response(200, "updated"),
              body |-> SetRegistered(voter_info, TRUE),
              voters_set |->
                 [k \in {v["student_id"] : v \in updated_voters_data} |->
                     CHOOSE v \in updated_voters_data : v["student_id"] = k],
              elections_set |-> NoWrites, elections_delete |-> {}]

\* update_voter, from the read of the existing voters: the stored record
\* with the payload's student_id is replaced by the payload, and every
\* record read is written back
update_stored(voters_data, voter_info) ==
    IF DOMAIN voters_data = {}
    THEN [response |-> Response(200, "updated"), body |-> voter_info,
          voters_set |-> (voter_info["student_id"] :> voter_info),
          elections_set |-> NoWrites, elections_delete |-> {}]
    ELSE LET target == {k \in DOMAIN voters_data :
                           voters_data[k]["student_id"]
                               = voter_info["student_id"]} IN
    IF \E k \in target : ~voters_data[k]["is_registered"]
    THEN Return(404, "Voter is not registered.", <<>>)
    ELSE LET updated_voters_data ==
                 {IF k \in target THEN SetRegistered(voter_info, TRUE)
                  ELSE voters_data[k] : k \in DOMAIN voters_data}
         IN  [response |-> Response(200, "updated"),
              body |-> SetRegistered(voter_info, TRUE),
              voters_set |->
                 [k \in {v["student_id"] : v \in updated_voters_data} |->
                     CHOOSE v \in updated_voters_data : v["student_id"] = k],
              elections_set |-> NoWrites, elections_delete |-> {}]

\* update_voter (PUT voters)
update_voter(voters_data, data) ==
    IF ~Truthy(data, "student_id")
    THEN Return(400, "Invalid attribute!", <<>>)
    ELSE LET student_id == data["student_id"] IN
    IF ~valid_student_id(student_id).valid
    THEN Return(400, "Invalid student id!", <<>>)
    ELSE LET result == valid_voter_info(voters_data, data, {"email"}) IN
    IF result.kind \in {"tuple", "raise"} THEN result.outcome
    ELSE IF result.kind = "response"
    THEN Raise("TypeError")     \* response["data"] on a Response object
    ELSE LET voter_info == result.data IN
    IF ~Has(voter_info, "is_registered")
    THEN Raise("KeyError")
    ELSE IF ~TruthyFlag(voter_info, "is_registered")
    THEN Return(200, "You cannot use update to deregister", <<>>)
    ELSE update_stored(voters_data, voter_info)

\* get_voters without the test of is_registered
get_voters_any(voters_data, id_list) ==
    LET result_list ==
            {k \in DOMAIN voters_data :
                \E i \in 1..Len(id_list) :
                    voters_data[k]["student_id"] = id_list[i]}
    IN  IF DOMAIN voters_data = {} THEN "message"
        ELSE IF Cardinality(result_list) >= Len(id_list) THEN "return_data"
        ELSE "False"

\* the stored records are not looked at
get_voters_unchecked(voters_data, id_list) ==
    IF DOMAIN voters_data = {} THEN "message" ELSE "return_data"

\* get_voters: the message dictionary when no voter is stored, the (empty)
\* return_data dictionary as soon as len(id_list) registered records with a
\* student_id of id_list have been seen, False otherwise
get_voters(voters_data, id_list) ==
    LET result_list ==
            {k \in DOMAIN voters_data :
                /\ \E i \in 1..Len(id_list) :
                       voters_data[k]["student_id"] = id_list[i]
                /\ voters_data[k]["is_registered"] = TRUE}
    IN  IF DOMAIN voters_data = {} THEN "message"
        ELSE IF Cardinality(result_list) >= Len(id_list) THEN "return_data"
        ELSE "False"

(***************************************************************************)
(* The document store: CollectionReference.get() streams the documents of  *)
(* a collection in the order of their document ids.                        *)
(***************************************************************************)
CodePointOrder ==
    <<"0", "1", "2", "3", "4", "5", "6", "7", "8", "9",
      "@",
      "A", "B", "C", "D", "E", "F", "G", "H", "I", "J", "K", "L", "M",
      "N", "O", "P", "Q", "R", "S", "T", "U", "V", "W", "X", "Y", "Z",
      "a", "b", "c", "d", "e", "f", "g", "h", "i", "j", "k", "l", "m",
      "n", "o", "p", "q", "r", "s", "t", "u", "v", "w", "x", "y", "z",
      "^2">>

ord(c) == CHOOSE i \in 1..Len(CodePointOrder) : CodePointOrder[i] = c

\* a < b for two strings, as Python and the store compare them
RECURSIVE StringLess(_, _)
StringLess(a, b) ==
    IF Len(b) = 0 THEN FALSE
    ELSE IF Len(a) = 0 THEN TRUE
    ELSE IF a[1] # b[1] THEN ord(a[1]) < ord(b[1])
    ELSE StringLess(Tail(a), Tail(b))

\* the document ids of a collection, ascending
RECURSIVE SortedIds(_)
SortedIds(ids) ==
    IF ids = {} THEN <<>>
    ELSE LET first == CHOOSE k \in ids :
                          \A other \in ids \ {k} : StringLess(k, other)
         IN  <<first>> \o SortedIds(ids \ {first})

CollectionGet(collection) == SortedIds(DOMAIN collection)

(***************************************************************************)
(* main.py: retrieval of voters                                            *)
(***************************************************************************)
UpperCase ==
    <<"A", "B", "C", "D", "E", "F", "G", "H", "I", "J", "K", "L", "M",
      "N", "O", "P", "Q", "R", "S", "T", "U", "V", "W", "X", "Y", "Z">>

LowerCase ==
    <<"a", "b", "c", "d", "e", "f", "g", "h", "i", "j", "k", "l", "m",
      "n", "o", "p", "q", "r", "s", "t", "u", "v", "w", "x", "y", "z">>

\* str.lower()
lower(s) ==
    [i \in 1..Len(s) |->
        IF \E u \in 1..Len(UpperCase) : UpperCase[u] = s[i]
        THEN LowerCase[CHOOSE u \in 1..Len(UpperCase) : UpperCase[u] = s[i]]
        ELSE s[i]]

\* str.startswith(prefix)
startswith(s, prefix) ==
    Len(s) >= Len(prefix) /\ SubSeq(s, 1, Len(prefix)) = prefix

\* retrieve_voters: the filter attributes, in the order they are read
FILTER_KEYS ==
    <<"student_id", "firstname", "lastname", "email", "year_group",
      "is_registered">>

\* retrieve_voters: the value of a filter is valid, or the handler returns
FilterValid == [kind |-> "valid"]

FilterInvalid(outcome) == [kind |-> "return", outcome |-> outcome]

filter_check(key, value) ==
    IF key = "student_id"
    THEN IF ~valid_student_id(value).valid
         THEN FilterInvalid(Return(400, "Student ID is not valid.", <<>>))
         ELSE FilterValid
    ELSE IF key = "firstname"
    THEN IF ~isalpha(value)
         THEN FilterInvalid(Return(400, "Firstname must be a string.", <<>>))
         ELSE FilterValid
    ELSE IF key = "lastname"
    THEN IF ~isalpha(value)
         THEN FilterInvalid(Return(400, "Lastname must be a string.", <<>>))
         ELSE FilterValid
    ELSE IF key = "email"
    THEN IF ~endswith(value, EmailSuffix)
         THEN FilterInvalid(Return(400,
                 "Email must be a valid Ashesi email address.", <<>>))
         ELSE FilterValid
    ELSE IF key = "is_registered"
    THEN IF lower(value) \notin {<<"t", "r", "u", "e">>,
                                 <<"f", "a", "l", "s", "e">>}
         THEN FilterInvalid(Return(400,
                 "Invalid value for is_registered attribute!", <<>>))
         ELSE FilterValid
    ELSE IF int_raises(value) THEN FilterInvalid(Raise("ValueError"))
    ELSE IF int(value) < FIRST_YEAR_GROUP
         THEN FilterInvalid(Return(200,
                 "Student year group is invalid.", <<>>))
         ELSE FilterValid

\* retrieve_voters: a string filter matches on a case-insensitive equality
\* only, not on a prefix
filter_matches_equal(key, value, voter) ==
    IF key = "year_group"
    THEN valid_student_id(voter["student_id"]).year_group = value
    ELSE IF key = "is_registered"
    THEN voter[key] = (lower(value) = <<"t", "r", "u", "e">>)
    ELSE lower(voter[key]) = lower(value)

\* retrieve_voters: the voter passes the filter
filter_matches(key, value, voter) ==
    IF key = "year_group"
    THEN valid_student_id(voter["student_id"]).year_group = value
    ELSE IF key = "is_registered"
    THEN voter[key] = (lower(value) = <<"t", "r", "u", "e">>)
    ELSE \/ lower(voter[key]) = lower(value)
         \/ startswith(lower(voter[key]), lower(value))

\* retrieve_voters: voter.get(key).lower() has no meaning for a stored
\* value that is not a string
lower_raises(key, voter) ==
    /\ key \in {"student_id", "firstname", "lastname", "email"}
    /\ voter[key] = JsonTrue

\* retrieve_voters: the loop over the filters, each applied to the result
\* of the one before
RECURSIVE filter_voters(_, _, _)
filter_voters(keys, filter_dict, voters_data) ==
    IF keys = <<>> THEN [kind |-> "list", list |-> voters_data]
    ELSE LET key == Head(keys)
             checked == filter_check(key, filter_dict[key])
         IN  IF checked.kind = "return" THEN checked
             ELSE IF \E i \in 1..Len(voters_data) :
                        lower_raises(key, voters_data[i])
             THEN FilterInvalid(Raise("AttributeError"))
             ELSE filter_voters(Tail(keys), filter_dict,
                     SelectSeq(voters_data,
                         LAMBDA voter :
                             filter_matches(key, filter_dict[key], voter)))

\* retrieve_voters (GET voters)
retrieve_voters(voters_collection, args) ==
    LET keys == SelectSeq(FILTER_KEYS, LAMBDA key : Truthy(args, key))
        stream == CollectionGet(voters_collection)
        voters_data == [i \in 1..Len(stream) |-> voters_collection[stream[i]]]
    IN  IF voters_data = <<>>
        THEN Return(404, "No voter has been registered!", <<>>)
        ELSE IF keys = <<>> THEN Return(200, "voters", voters_data)
        ELSE LET result == filter_voters(keys, args, voters_data)
             IN  IF result.kind = "return" THEN result.outcome
                 ELSE IF result.list = <<>>
                 THEN Return(404, "No voter found with the provided details",
                             <<>>)
                 ELSE Return(200, "voters", result.list)

(***************************************************************************)
(* main.py: election registry                                              *)
(***************************************************************************)
\* create_election keeping only the first candidate of each position
updated_positions_first(election_positions) ==
    [p \in 1..Len(election_positions) |->
        [election_positions[p] EXCEPT !["candidates"] =
            [c \in 1..(IF Len(election_positions[p]["candidates"]) = 0
                       THEN 0 ELSE 1) |->
                [candidate_id |-> election_positions[p]["candidates"][c],
                 candidate_voters |-> <<>>]]]]

\* create_election: each submitted candidate identifier becomes a candidate
\* record with an empty candidate_voters list
updated_positions(election_positions) ==
    [p \in 1..Len(election_positions) |->
        [election_positions[p] EXCEPT !["candidates"] =
            [c \in 1..Len(election_positions[p]["candidates"]) |->
                [candidate_id |-> election_positions[p]["candidates"][c],
                 candidate_voters |-> <<>>]]]]

\* create_election without the check against the stored elections
create_election_unchecked(elections_data, data) ==
    IF ~valid_request_body(data)
    THEN Return(404, "Election information not provided!", <<>>)
    ELSE LET validate_data == valid_keys(data, ELECTION_KEYS) IN
    IF ~validate_data.is_valid
    THEN Return(400, "is required", validate_data.message)
    ELSE LET election_info ==
                 [data EXCEPT !["positions"] =
                     updated_positions(data["positions"])]
         IN  [response |-> Response(200, "created"), body |-> election_info,
              voters_set |-> NoWrites,
              elections_set |->
                 (election_info["election_code"] :> election_info),
              elections_delete |-> {}]

\* create_election (POST elections)
create_election(elections_data, data) ==
    IF ~valid_request_body(data)
    THEN Return(404, "Election information not provided!", <<>>)
    ELSE LET validate_data == valid_keys(data, ELECTION_KEYS) IN
    IF ~validate_data.is_valid
    THEN Return(400, "is required", validate_data.message)
    ELSE IF DOMAIN elections_data # {}
    THEN Raise("TypeError")     \* json.loads of the list of documents
    ELSE LET election_info ==
                 [data EXCEPT !["positions"] =
                     updated_positions(data["positions"])]
         IN  [response |-> Response(200, "created"), body |-> election_info,
              voters_set |-> NoWrites,
              elections_set |->
                 (election_info["election_code"] :> election_info),
              elections_delete |-> {}]

\* retrieve_election returning the first stored election for any code
retrieve_election_first(elections_collection, args) ==
    LET stream == CollectionGet(elections_collection)
        elections_data ==
            [i \in 1..Len(stream) |-> elections_collection[stream[i]]]
    IN  IF ~Has(args, "election_code")
        THEN IF elections_data = <<>> THEN Return(200, "elections", <<>>)
             ELSE Raise("TypeError")
        ELSE IF elections_data = <<>>
        THEN Return(404, "No elections have been created!", <<>>)
        ELSE Return(200, "election", elections_data[1])

\* retrieve_election (GET elections): without an election_code the list
\* of document snapshots goes to jsonify, which cannot serialise a snapshot
retrieve_election(elections_collection, args) ==
    LET stream == CollectionGet(elections_collection)
        elections_data ==
            [i \in 1..Len(stream) |-> elections_collection[stream[i]]]
    IN  IF ~Has(args, "election_code")
        THEN IF elections_data = <<>> THEN Return(200, "elections", <<>>)
             ELSE Raise("TypeError")
        ELSE IF elections_data = <<>>
        THEN Return(404, "No elections have been created!", <<>>)
        ELSE IF \E i \in 1..Len(elections_data) :
                   elections_data[i]["election_code"] = args["election_code"]
        THEN Return(200, "election",
                 elections_data[
                     CHOOSE i \in 1..Len(elections_data) :
                         /\ elections_data[i]["election_code"]
                               = args["election_code"]
                         /\ \A j \in 1..(i - 1) :
                                elections_data[j]["election_code"]
                                    # args["election_code"]])
        ELSE Return(404, "Election with requested code does not exist!",
                    <<>>)

\* delete() returning nothing
delete_returns_none == FALSE

\* DocumentReference.delete() returns the time of the write, whether or
\* not the document existed
delete_returns == TRUE

\* delete_election (DELETE elections)
delete_election(elections_data, data) ==
    IF ~Truthy(data, "election_code")
    THEN Return(400, "Election code not provided!", <<>>)
    ELSE IF DOMAIN elections_data = {}
    THEN Return(404, "No elections have been created!", <<>>)
    ELSE IF delete_returns
    THEN [response |-> Response(200, "has been deleted successfully!"),
          body |-> <<>>, voters_set |-> NoWrites,
          elections_set |-> NoWrites,
          elections_delete |-> {data["election_code"]}]
    ELSE [response |->
             Response(404, "Election with requested code does not exist!"),
          body |-> <<>>, voters_set |-> NoWrites,
          elections_set |-> NoWrites,
          elections_delete |-> {data["election_code"]}]

(***************************************************************************)
(* main.py: vote                                                           *)
(***************************************************************************)
\* all_voters emptied at each candidate: the last candidate's voters only
all_voters_last(candidates) ==
    IF candidates = <<>> THEN <<>>
    ELSE candidates[Len(candidates)]["candidate_voters"]

\* all_voters: the candidate_voters lists of a position, concatenated
RECURSIVE all_voters(_)
all_voters(candidates) ==
    IF candidates = <<>> THEN <<>>
    ELSE candidates[1]["candidate_voters"] \o all_voters(Tail(candidates))

InSeq(x, seq) == \E i \in 1..Len(seq) : seq[i] = x

\* candidate_exists initialised to True
candidate_exists_true(candidates, candidate_id) == TRUE

\* candidate_exists: candidate_id is the id of a candidate of the position
candidate_exists(candidates, candidate_id) ==
    \E c \in 1..Len(candidates) :
        candidates[c]["candidate_id"] = candidate_id

\* the vote is cast at the head of the candidate_voters list
updated_candidate_head(candidates, candidate_id, student_id) ==
    [c \in 1..Len(candidates) |->
        IF candidates[c]["candidate_id"] = candidate_id
        THEN [candidates[c] EXCEPT !["candidate_voters"] =
                 <<student_id>> \o @]
        ELSE candidates[c]]

\* the vote is cast: student_id is appended to candidate_voters of every
\* candidate record of the position whose candidate_id is the one voted for
updated_candidate(candidates, candidate_id, student_id) ==
    [c \in 1..Len(candidates) |->
        IF candidates[c]["candidate_id"] = candidate_id
        THEN [candidates[c] EXCEPT !["candidate_voters"] =
                 Append(@, student_id)]
        ELSE candidates[c]]

\* the index of the first position with the given position_id, or 0
position_index(positions, position_id) ==
    IF \E p \in 1..Len(positions) : positions[p]["position_id"] = position_id
    THEN CHOOSE p \in 1..Len(positions) :
            /\ positions[p]["position_id"] = position_id
            /\ \A q \in 1..(p - 1) :
                   positions[q]["position_id"] # position_id
    ELSE 0

\* vote, the body of the loop for the election with the requested code
vote_in(election, position_id, vote_info) ==
    LET positions == election["positions"]
        p == position_index(positions, position_id)
    IN  IF p = 0 THEN [kind |-> "election", election |-> election]
        ELSE LET candidates == positions[p]["candidates"]
             IN  IF ~candidate_exists(candidates, vote_info["candidate_id"])
                 THEN [kind |-> "return",
                       outcome |-> Return(200,
                           "has not been registered for the position!", <<>>)]
                 ELSE IF InSeq(vote_info["student_id"], all_voters(candidates))
                 THEN [kind |-> "return",
                       outcome |-> Return(403,
                           "You cannot vote twice for one position!", <<>>)]
                 ELSE [kind |-> "election",
                       election |->
                          [election EXCEPT !["positions"][p]["candidates"] =
                              updated_candidate(candidates,
                                  vote_info["candidate_id"],
                                  vote_info["student_id"])]]

\* vote (POST elections, vote)
vote(voters_data, elections_data, args, data) ==
    IF ~Truthy(args, "position_id")
    THEN Return(400, "Missing election position!", <<>>)
    ELSE IF ~valid_request_body(data)
    THEN Return(404, "Election information not provided!", <<>>)
    ELSE LET validate_data == valid_keys(data, VOTING_KEYS) IN
    IF ~validate_data.is_valid
    THEN Return(400, "is required", validate_data.message)
    ELSE IF ~valid_student_id(data["student_id"]).valid
    THEN Return(400, "Student ID is not valid.", <<>>)
    ELSE IF ~valid_student_id(data["candidate_id"]).valid
    THEN Return(400, "Candidate ID is not valid.", <<>>)
    ELSE IF get_voters(voters_data,
                       <<data["student_id"], data["candidate_id"]>>) = "False"
    THEN Return(404, "Voter or candidate not registered!", <<>>)
    ELSE IF DOMAIN voters_data = {}
    THEN Return(404, "No voter has been registered!", <<>>)
    ELSE IF DOMAIN elections_data = {}
    THEN Return(404, "No election has been created!", <<>>)
    ELSE IF ~Truthy(data, "election_code")
    THEN Raise("UnboundLocalError")     \* election_code was never assigned
    ELSE LET stream == CollectionGet(elections_data)
             found == {i \in 1..Len(stream) :
                          elections_data[stream[i]]["election_code"]
                              = data["election_code"]}
         IN
    IF found = {}
    THEN Return(404, "Election does not exist!", <<>>)
    ELSE LET i == CHOOSE j \in found : \A k \in found : j <= k
             result == vote_in(elections_data[stream[i]],
                               args["position_id"], data)
         IN
    IF result.kind = "return" THEN result.outcome
    ELSE LET election_info == result.election
             updated_elections_data ==
                 [j \in 1..i |-> IF j = i THEN election_info
                                 ELSE elections_data[stream[j]]]
         IN  [response |-> Response(200, "voted"), body |-> election_info,
              voters_set |-> NoWrites,
              elections_set |->
                 [k \in {updated_elections_data[j]["election_code"] :
                            j \in 1..i} |->
                     updated_elections_data[
                         CHOOSE j \in 1..i :
                             /\ updated_elections_data[j]["election_code"] = k
                             /\ \A l \in (j + 1)..i :
                                    updated_elections_data[l]["election_code"]
                                        # k]],
              elections_delete |-> {}]

(***************************************************************************)
(* main.py: the dispatcher                                                 *)
(***************************************************************************)
\* word in path
contains(path, word) ==
    \E i \in 1..(Len(path) - Len(word) + 1) :
        SubSeq(path, i, i + Len(word) - 1) = word

VotersWord == <<"v", "o", "t", "e", "r", "s">>

ElectionsWord == <<"e", "l", "e", "c", "t", "i", "o", "n", "s">>

VoteWord == <<"v", "o", "t", "e">>

\* get_voters called with the request as id_list: the message dictionary
\* when no voter is stored; otherwise the membership test of the first
\* voter's student_id in the request raises TypeError
get_voters_request(voters_data) ==
    IF DOMAIN voters_data = {}
    THEN Return(200, "No voter has been registered!", <<>>)
    ELSE Raise("TypeError")

\* a branch of voting_system: the handler it calls and what that returns
Handled(handler, outcome) == [handler |-> handler, outcome |-> outcome]

\* voting_system: the branches in the order of the code; a request that
\* matches no inner branch returns None, which is no response
voting_system(voters_data, elections_data, request) ==
    IF contains(request.path, VotersWord)
    THEN IF request.method = "POST"
         THEN Handled("register_voter",
                      register_voter(voters_data, request.data))
         ELSE IF request.method = "PATCH"
         THEN Handled("deregister_voter",
                      deregister_voter(voters_data, request.data))
         ELSE IF request.method = "GET"
         THEN Handled("get_voters", get_voters_request(voters_data))
         ELSE IF request.method = "PUT"
         THEN Handled("update_voter",
                      update_voter(voters_data, request.data))
         ELSE Handled("None", Raise("TypeError"))
    ELSE IF contains(request.path, ElectionsWord)
    THEN IF request.method = "POST"
         THEN Handled("create_election",
                      create_election(elections_data, request.data))
         ELSE IF request.method = "GET"
         THEN Handled("retrieve_election",
                      retrieve_election(elections_data, request.args))
         ELSE IF request.method = "DELETE"
         THEN Handled("delete_election",
                      delete_election(elections_data, request.data))
         ELSE IF request.method = "POST" /\ contains(request.path, VoteWord)
         THEN Handled("vote",
                      vote(voters_data, elections_data, request.args,
                           request.data))
         ELSE Handled("None", Raise("TypeError"))
    ELSE Handled("Invalid endpoint!",
                 Return(404, "Invalid endpoint!", <<>>))

(***************************************************************************)
(* Requests                                                                *)
(***************************************************************************)
Year2024 == <<"2", "0", "2", "4">>
Year2025 == <<"2", "0", "2", "5">>
Year2030 == <<"2", "0", "3", "0">>
Year1999 == <<"1", "9", "9", "9">>
YearSup == <<"2", "0", "^2", "4">>

StudentA == <<"1", "0", "0", "1">> \o Year2024
StudentB == <<"1", "0", "0", "2">> \o Year2024
StudentV == <<"1", "0", "0", "3">> \o Year2025
StudentOld == <<"1", "0", "0", "4">> \o Year1999
StudentSup == <<"1", "0", "0", "5">> \o YearSup
StudentShort == <<"1", "2", "3">>

StudentIds == {StudentA, StudentB, StudentV}
BadStudentIds == {StudentOld, StudentSup, StudentShort}

EmailA == <<"a">> \o EmailSuffix
EmailB == <<"b">> \o EmailSuffix
EmailC == <<"c">> \o EmailSuffix
BadEmail == <<"a", "@", "g", ".", "c">>
Emails == {EmailA, EmailB, EmailC}

John == <<"J", "o", "h", "n">>
Adejo == <<"A", "d", "e", "j", "o">>
LowerJo == <<"j", "o">>
Doe == <<"D", "o", "e">>
BadName == <<"J", "0", "h", "n">>

E1 == <<"E", "1">>
E2 == <<"E", "2">>
P1 == <<"P", "1">>
P2 == <<"P", "2">>
ElectionCodes == {E1, E2}
PositionIds == {P1, P2}

\* a payload without one of its keys
Without(payload, key) == [k \in DOMAIN payload \ {key} |-> payload[k]]

EmptyPayload == [k \in {} |-> TRUE]

\* each student has one first name
FirstnameOf ==
    (StudentA :> John) @@ (StudentB :> Adejo) @@ (StudentV :> LowerJo)

ValidVoterPayloads ==
    {[student_id |-> s, firstname |-> FirstnameOf[s], lastname |-> Doe,
      email |-> e] : s \in StudentIds, e \in Emails}

\* a well-formed payload, the base of the defective ones
BaseVoterPayload ==
    [student_id |-> StudentA, firstname |-> John, lastname |-> Doe,
     email |-> EmailA]

\* payloads with one defect: a bad or missing field
DefectiveVoterPayloads ==
    {[p EXCEPT !["student_id"] = bad] :
        p \in ValidVoterPayloads, bad \in BadStudentIds}
    \cup {[BaseVoterPayload EXCEPT !["email"] = BadEmail]}
    \cup {[BaseVoterPayload EXCEPT ![k] = BadName] :
            k \in {"firstname", "lastname"}}
    \cup {Without(BaseVoterPayload, k) :
            k \in {"student_id", "firstname", "lastname", "email"}}
    \cup {EmptyPayload}

RegisterPayloads == ValidVoterPayloads \cup DefectiveVoterPayloads

UpdatePayloads ==
    {SetRegistered(p, flag) :
        p \in ValidVoterPayloads, flag \in BOOLEAN}
    \cup ValidVoterPayloads
    \cup {IF p = EmptyPayload THEN p ELSE SetRegistered(p, TRUE) :
            p \in DefectiveVoterPayloads}

DeregisterValues ==
    StudentIds \cup {StudentShort, Year2024, Year2025, Year2030, Year1999,
                     YearSup}

DeregisterPayloads ==
    {[student_id |-> v] : v \in DeregisterValues}
    \cup {[year_group |-> v] : v \in DeregisterValues}
    \cup {[student_id |-> StudentA, year_group |-> Year2025], EmptyPayload}

President == <<"P", "r", "e", "s">>
Secretary == <<"S", "e", "c">>

\* positions as submitted: candidates are raw candidate identifiers;
\* the second position of PositionsDup names one candidate twice
PositionsDup ==
    <<[position_id |-> P1, position_name |-> President,
       candidates |-> <<StudentA, StudentB>>],
      [position_id |-> P2, position_name |-> Secretary,
       candidates |-> <<StudentA, StudentA>>]>>

PositionsPlain ==
    <<[position_id |-> P1, position_name |-> President,
       candidates |-> <<StudentB, StudentV>>]>>

ValidElectionPayloads ==
    {[election_code |-> E1, election_name |-> <<"N", "1">>,
      election_startdate |-> <<"d">>, election_period |-> <<"2", "4">>,
      positions |-> PositionsDup],
     [election_code |-> E2, election_name |-> <<"N", "2">>,
      election_startdate |-> <<"d">>, election_period |-> <<"2", "4">>,
      positions |-> PositionsPlain]}

\* an election without positions that has the name of another election
NamesakePayload ==
    [election_code |-> E2, election_name |-> <<"N", "1">>,
     election_startdate |-> <<"d">>, election_period |-> <<"2", "4">>,
     positions |-> <<>>]

CreatePayloads ==
    ValidElectionPayloads
    \cup {NamesakePayload}
    \cup {Without(p, ELECTION_KEYS[k]) :
            p \in {q \in ValidElectionPayloads : q["election_code"] = E1},
            k \in 1..Len(ELECTION_KEYS)}
    \cup {EmptyPayload}

DeletePayloads ==
    {[election_code |-> c] : c \in ElectionCodes} \cup {EmptyPayload}

Jo == <<"J", "o">>
UpperEmailA == <<"A">> \o EmailSuffix
ArgTrue == <<"T", "r", "u", "e">>
ArgFalse == <<"f", "a", "l", "s", "e">>
ArgMaybe == <<"m", "a", "y", "b", "e">>

\* query arguments of a filtered retrieve: one filter of every kind, valid
\* or not, and the combinations of a first name, a year group and a flag
RetrieveVotersArgs ==
    {[student_id |-> v] : v \in {StudentA, StudentShort, StudentSup}}
    \cup {[firstname |-> v] : v \in {Jo, John, BadName, <<>>}}
    \cup {[lastname |-> v] : v \in {<<"d", "o">>, BadName}}
    \cup {[email |-> v] : v \in {UpperEmailA, EmailSuffix, BadEmail}}
    \cup {[year_group |-> v] :
            v \in {Year2024, Year2030, Year1999, YearSup}}
    \cup {[is_registered |-> v] : v \in {ArgTrue, ArgFalse, ArgMaybe}}
    \cup {[firstname |-> Jo, year_group |-> y] : y \in {Year2024, Year2025}}
    \cup {[firstname |-> Jo, is_registered |-> r] :
            r \in {ArgTrue, ArgFalse}}
    \cup {[year_group |-> y, is_registered |-> r] :
            y \in {Year2024, Year2025}, r \in {ArgTrue, ArgFalse}}
    \cup {[firstname |-> Jo, year_group |-> y, is_registered |-> r] :
            y \in {Year2024, Year2025}, r \in {ArgTrue, ArgFalse}}
    \cup {EmptyPayload}

RetrieveElectionArgs ==
    {[election_code |-> c] : c \in ElectionCodes \cup {<<>>}}
    \cup {EmptyPayload}

ValidVoteArgs == {[position_id |-> p] : p \in PositionIds}

ValidVoteData ==
    [election_code : ElectionCodes, student_id : StudentIds,
     candidate_id : StudentIds]

BaseVoteArgs == [position_id |-> P1]

BaseVoteData ==
    [election_code |-> E1, student_id |-> StudentV,
     candidate_id |-> StudentA]

\* vote requests with at most one defect
VoteRequests ==
    (ValidVoteArgs \X ValidVoteData)
    \cup ({EmptyPayload} \X {BaseVoteData})
    \cup ({BaseVoteArgs} \X
            ({Without(d, "election_code") :
                d \in {e \in ValidVoteData : e["election_code"] = E1}}
             \cup {Without(BaseVoteData, k) :
                     k \in {"student_id", "candidate_id"}}
             \cup {[BaseVoteData EXCEPT ![k] = StudentShort] :
                     k \in {"student_id", "candidate_id"}}
             \cup {EmptyPayload}))

(***************************************************************************)
(* The API handles one request at a time                                   *)
(***************************************************************************)
\* no call of valid_student_id on its own, no vote request in progress
NoCall == [pc |-> "none"]

NoVotes == <<>>

NoUpdates == <<>>

Init ==
    /\ voters = [k \in {} |-> TRUE]
    /\ elections = [k \in {} |-> TRUE]
    /\ codec = NoCall
    /\ votes = NoVotes
    /\ updates = NoUpdates

RegisterVoter == \E data \in RegisterPayloads :
    LET outcome == register_voter(voters, data)
    IN  /\ voters' = DocumentSet(voters, outcome.voters_set)
        /\ UNCHANGED <<elections, codec, votes, updates>>

DeregisterVoter == \E data \in DeregisterPayloads :
    LET outcome == deregister_voter(voters, data)
    IN  /\ voters' = DocumentSet(voters, outcome.voters_set)
        /\ UNCHANGED <<elections, codec, votes, updates>>

UpdateVoter == \E data \in UpdatePayloads :
    LET outcome == update_voter(voters, data)
    IN  /\ voters' = DocumentSet(voters, outcome.voters_set)
        /\ UNCHANGED <<elections, codec, votes, updates>>

CreateElection == \E data \in CreatePayloads :
    LET outcome == create_election(elections, data)
    IN  /\ elections' = DocumentSet(elections, outcome.elections_set)
        /\ UNCHANGED <<voters, codec, votes, updates>>

DeleteElection == \E data \in DeletePayloads :
    LET outcome == delete_election(elections, data)
    IN  /\ elections' = DocumentDelete(elections, outcome.elections_delete)
        /\ UNCHANGED <<voters, codec, votes, updates>>

RetrieveVoters == \E args \in RetrieveVotersArgs :
    LET outcome == retrieve_voters(voters, args)
    IN  /\ voters' = DocumentSet(voters, outcome.voters_set)
        /\ UNCHANGED <<elections, codec, votes, updates>>

RetrieveElection == \E args \in RetrieveElectionArgs :
    LET outcome == retrieve_election(elections, args)
    IN  /\ elections' = DocumentSet(elections, outcome.elections_set)
        /\ UNCHANGED <<voters, codec, votes, updates>>

Vote == \E request \in VoteRequests :
    LET outcome == vote(voters, elections, request[1], request[2])
    IN  /\ elections' = DocumentSet(elections, outcome.elections_set)
        /\ UNCHANGED <<voters, codec, votes, updates>>

Next ==
    \/ RegisterVoter
    \/ DeregisterVoter
    \/ UpdateVoter
    \/ RetrieveVoters
    \/ CreateElection
    \/ RetrieveElection
    \/ DeleteElection
    \/ Vote

Spec == Init /\ [][Next]_vars

(***************************************************************************)
(* Every request passes through voting_system                              *)
(***************************************************************************)
Methods == {"GET", "POST", "PATCH", "PUT", "DELETE"}

VotersPath == <<"/">> \o VotersWord

ElectionsPath == <<"/">> \o ElectionsWord

VotePath == ElectionsPath \o <<"/">> \o VoteWord

OtherPath == <<"/", "p", "i", "n", "g">>

HttpRequest(method, path, args, data) ==
    [method |-> method, path |-> path, args |-> args, data |-> data]

\* the requests of the route table, and requests that match no row
DispatchRequests ==
    {HttpRequest("POST", VotersPath, EmptyPayload, data) :
        data \in RegisterPayloads}
    \cup {HttpRequest("PATCH", VotersPath, EmptyPayload, data) :
            data \in DeregisterPayloads}
    \cup {HttpRequest("PUT", VotersPath, EmptyPayload, data) :
            data \in UpdatePayloads}
    \cup {HttpRequest("GET", VotersPath, args, EmptyPayload) :
            args \in RetrieveVotersArgs}
    \cup {HttpRequest("POST", ElectionsPath, EmptyPayload, data) :
            data \in CreatePayloads}
    \cup {HttpRequest("GET", ElectionsPath, args, EmptyPayload) :
            args \in RetrieveElectionArgs}
    \cup {HttpRequest("DELETE", ElectionsPath, EmptyPayload, data) :
            data \in DeletePayloads}
    \cup {HttpRequest("POST", VotePath, request[1], request[2]) :
            request \in VoteRequests}
    \cup {HttpRequest(method, OtherPath, EmptyPayload, EmptyPayload) :
            method \in Methods}
    \cup {HttpRequest("DELETE", VotersPath, EmptyPayload, EmptyPayload),
          HttpRequest("PATCH", ElectionsPath, EmptyPayload, EmptyPayload)}

Dispatch == \E request \in DispatchRequests :
    LET outcome == voting_system(voters, elections, request).outcome
    IN  /\ voters' = DocumentSet(voters, outcome.voters_set)
        /\ elections' =
              DocumentDelete(DocumentSet(elections, outcome.elections_set),
                             outcome.elections_delete)
        /\ UNCHANGED <<codec, votes, updates>>

DispatchSpec == Init /\ [][Dispatch]_vars

(***************************************************************************)
(* The identifier codec on its own: valid_student_id applied to a string   *)
(***************************************************************************)
\* a decimal digit, another one, a numeric character that is no decimal
\* digit, and a letter
CodecAlphabet == {"0", "2", SuperscriptTwo, "A"}

\* the strings of 7, 8 and 9 characters that begin with 1002, the
\* identifiers of the requests, and the empty string
CodecInputs ==
    {<<"1", "0", "0", "2">> \o tail :
        tail \in UNION {[1..n -> CodecAlphabet] : n \in 3..5}}
    \cup StudentIds \cup BadStudentIds \cup {<<>>}

CodecInit ==
    /\ voters = [k \in {} |-> TRUE]
    /\ elections = [k \in {} |-> TRUE]
    /\ votes = NoVotes
    /\ updates = NoUpdates
    /\ codec \in {[pc |-> "call", student_id |-> s] : s \in CodecInputs}

ValidStudentId ==
    /\ codec.pc = "call"
    /\ codec' = [pc |-> "return", student_id |-> codec.student_id,
                 result |-> valid_student_id(codec.student_id)]
    /\ UNCHANGED <<voters, elections, votes, updates>>

CodecSpec == CodecInit /\ [][ValidStudentId]_vars

(***************************************************************************)
(* Vote requests handled concurrently: a request reads the collections,    *)
(* decides on what it read, and writes the election back in a later step   *)
(***************************************************************************)
NumVoteProcesses == 3

VoteProcesses == 1..NumVoteProcesses

EmailOf == (StudentA :> EmailA) @@ (StudentB :> EmailB) @@ (StudentV :> EmailC)

\* three registered voters and the election E2 (one position, candidates B
\* and V), as register_voter and create_election store them
ConcurrentInit ==
    /\ voters =
          [s \in StudentIds |->
              register_voter(NoWrites,
                  [student_id |-> s, firstname |-> FirstnameOf[s],
                   lastname |-> Doe, email |-> EmailOf[s]]).voters_set[s]]
    /\ elections =
          create_election(NoWrites,
              CHOOSE data \in ValidElectionPayloads :
                  data["election_code"] = E2).elections_set
    /\ codec = NoCall
    /\ votes = [p \in VoteProcesses |-> [pc |-> "idle"]]
    /\ updates = NoUpdates

\* well-formed votes for the position of E2
ConcurrentVoteRequests ==
    {request \in ValidVoteArgs \X ValidVoteData :
        /\ request[1]["position_id"] = P1
        /\ request[2]["election_code"] = E2}

\* vote, the write of the elections it has updated: nothing is written
vote_write_nothing(elections_now, writes) == elections_now

\* vote, the write of the elections it has updated
vote_write(elections_now, writes) == DocumentSet(elections_now, writes)

\* vote up to its return or to the write: the collections are read and the
\* checks are made on what was read
VoteRead == \E p \in VoteProcesses, request \in ConcurrentVoteRequests :
    LET outcome == vote(voters, elections, request[1], request[2])
    IN  /\ votes[p].pc = "idle"
        /\ votes' =
              [votes EXCEPT ![p] =
                  IF outcome.elections_set = NoWrites
                  THEN [pc |-> "done", request |-> request,
                        response |-> outcome.response, stale |-> FALSE]
                  ELSE [pc |-> "read", request |-> request,
                        response |-> outcome.response,
                        writes |-> outcome.elections_set,
                        snapshot |-> elections]]
        /\ UNCHANGED <<voters, elections, codec, updates>>

\* vote from the write to the return; stale records that the collection
\* was no longer the one the request had read
VoteWrite == \E p \in VoteProcesses :
    /\ votes[p].pc = "read"
    /\ elections' = vote_write(elections, votes[p].writes)
    /\ votes' =
          [votes EXCEPT ![p] =
              [pc |-> "done", request |-> votes[p].request,
               response |-> votes[p].response,
               stale |-> (elections # votes[p].snapshot)]]
    /\ UNCHANGED <<voters, codec, updates>>

ConcurrentNext == VoteRead \/ VoteWrite

ConcurrentSpec == ConcurrentInit /\ [][ConcurrentNext]_vars

(***************************************************************************)
(* Update voter requests handled concurrently with Deregister requests: an *)
(* Update reads the voters, decides on what it read, and writes in a later *)
(* step                                                                    *)
(***************************************************************************)
NumUpdateProcesses == 2

UpdateProcesses == 1..NumUpdateProcesses

\* the registered voters of ConcurrentInit, no election
RaceInit ==
    /\ voters =
          [s \in StudentIds |->
              register_voter(NoWrites,
                  [student_id |-> s, firstname |-> FirstnameOf[s],
                   lastname |-> Doe, email |-> EmailOf[s]]).voters_set[s]]
    /\ elections = [k \in {} |-> TRUE]
    /\ codec = NoCall
    /\ votes = NoVotes
    /\ updates = [w \in UpdateProcesses |-> [pc |-> "idle"]]

\* updates of a voter's names, the email kept or changed
RaceUpdatePayloads ==
    UNION {{[student_id |-> s, firstname |-> f, lastname |-> Doe,
             email |-> e, is_registered |-> TRUE] :
               f \in {John, Adejo}, e \in {EmailOf[s], EmailC}} :
           s \in {StudentA, StudentB}}

RaceDeregisterPayloads == {[student_id |-> s] : s \in StudentIds}

\* update_voter up to its return or to the write: the voters are read and
\* the checks are made on what was read
UpdateRead == \E w \in UpdateProcesses, data \in RaceUpdatePayloads :
    LET outcome == update_voter(voters, data)
    IN  /\ updates[w].pc = "idle"
        /\ updates' =
              [updates EXCEPT ![w] =
                  IF outcome.voters_set = NoWrites
                  THEN [pc |-> "done", request |-> data,
                        response |-> outcome.response]
                  ELSE [pc |-> "read", request |-> data,
                        response |-> outcome.response,
                        writes |-> outcome.voters_set]]
        /\ UNCHANGED <<voters, elections, codec, votes>>

\* update_voter from the write to the return
UpdateWrite == \E w \in UpdateProcesses :
    /\ updates[w].pc = "read"
    /\ voters' = DocumentSet(voters, updates[w].writes)
    /\ updates' =
          [updates EXCEPT ![w] =
              [pc |-> "done", request |-> updates[w].request,
               response |-> updates[w].response]]
    /\ UNCHANGED <<elections, codec, votes>>

\* a Deregister request, from its read to its return
RaceDeregister == \E data \in RaceDeregisterPayloads :
    LET outcome == deregister_voter(voters, data)
    IN  /\ voters' = DocumentSet(voters, outcome.voters_set)
        /\ UNCHANGED <<elections, codec, votes, updates>>

RaceNext == UpdateRead \/ UpdateWrite \/ RaceDeregister

RaceSpec == RaceInit /\ [][RaceNext]_vars

(***************************************************************************)
(* The voter registry on its own: Register, Update voter, Deregister and   *)
(* Retrieve requests, one at a time, whose payloads include a student_id   *)
(* with a superscript two among its first four characters and a firstname  *)
(* that is the JSON literal true                                           *)
(***************************************************************************)
StudentSq == <<"1", "0", SuperscriptTwo, "6">> \o Year2024

RegistryIds == {StudentA, StudentB, StudentSq}

RegistryPayloads ==
    {[student_id |-> s, firstname |-> f, lastname |-> Doe, email |-> e] :
        s \in RegistryIds, f \in {John, JsonTrue}, e \in Emails}
    \cup {[BaseVoterPayload EXCEPT !["student_id"] = bad] :
            bad \in BadStudentIds}
    \cup {[BaseVoterPayload EXCEPT !["email"] = BadEmail]}
    \cup {[BaseVoterPayload EXCEPT ![k] = BadName] :
            k \in {"firstname", "lastname"}}

RegistryUpdatePayloads ==
    {SetRegistered(p, TRUE) : p \in RegistryPayloads}

RegistryDeregisterPayloads ==
    {[student_id |-> s] : s \in RegistryIds}
    \cup {[year_group |-> Year2024]}

RegistryRetrieveArgs ==
    {[firstname |-> Jo], [lastname |-> Doe], [year_group |-> Year2024],
     EmptyPayload}

RegistryRegister == \E data \in RegistryPayloads :
    LET outcome == register_voter(voters, data)
    IN  /\ voters' = DocumentSet(voters, outcome.voters_set)
        /\ UNCHANGED <<elections, codec, votes, updates>>

RegistryUpdate == \E data \in RegistryUpdatePayloads :
    LET outcome == update_voter(voters, data)
    IN  /\ voters' = DocumentSet(voters, outcome.voters_set)
        /\ UNCHANGED <<elections, codec, votes, updates>>

RegistryDeregister == \E data \in RegistryDeregisterPayloads :
    LET outcome == deregister_voter(voters, data)
    IN  /\ voters' = DocumentSet(voters, outcome.voters_set)
        /\ UNCHANGED <<elections, codec, votes, updates>>

RegistryRetrieve == \E args \in RegistryRetrieveArgs :
    LET outcome == retrieve_voters(voters, args)
    IN  /\ voters' = DocumentSet(voters, outcome.voters_set)
        /\ UNCHANGED <<elections, codec, votes, updates>>

RegistryNext ==
    \/ RegistryRegister
    \/ RegistryUpdate
    \/ RegistryDeregister
    \/ RegistryRetrieve

RegistrySpec == Init /\ [][RegistryNext]_vars

(***************************************************************************)
(* Vocabulary of the properties                                            *)
(***************************************************************************)
\* the responses that report success
SuccessMessages ==
    {"created", "updated", "de-registered!", "voted",
     "has been deleted successfully!"}

Succeeds(outcome) == outcome.response.message \in SuccessMessages

\* the collections after the writes of an outcome
VotersAfter(outcome) == DocumentSet(voters, outcome.voters_set)

ElectionsAfter(outcome) ==
    DocumentDelete(DocumentSet(elections, outcome.elections_set),
                   outcome.elections_delete)

NothingChanged(outcome) ==
    VotersAfter(outcome) = voters /\ ElectionsAfter(outcome) = elections

\* a stored voter record with this student_id exists / is registered
Stored(student_id) ==
    \E k \in DOMAIN voters : voters[k]["student_id"] = student_id

Registered(student_id) ==
    \E k \in DOMAIN voters :
        /\ voters[k]["student_id"] = student_id
        /\ voters[k]["is_registered"] = TRUE

NoDuplicates(seq) ==
    \A i, j \in 1..Len(seq) : i # j => seq[i] # seq[j]

\* the candidate_voters lists of the candidates, one after the other
RECURSIVE Concatenation(_)
Concatenation(candidates) ==
    IF Len(candidates) = 0 THEN <<>>
    ELSE Concatenation(SubSeq(candidates, 1, Len(candidates) - 1))
         \o candidates[Len(candidates)]["candidate_voters"]

VoteOutcome(request) == vote(voters, elections, request[1], request[2])

\* the request passes the checks of step 1: position_id, student_id and
\* candidate_id are given and both identifiers are well formed
WellFormedVote(request) ==
    /\ Truthy(request[1], "position_id")
    /\ Has(request[2], "student_id")
    /\ Has(request[2], "candidate_id")
    /\ valid_student_id(request[2]["student_id"]).valid
    /\ valid_student_id(request[2]["candidate_id"]).valid

\* the request names a stored election
NamesElection(request) ==
    /\ Truthy(request[2], "election_code")
    /\ request[2]["election_code"] \in DOMAIN elections

\* the request names a stored election and one of its positions
NamesPosition(request) ==
    /\ NamesElection(request)
    /\ \E p \in 1..Len(elections[request[2]["election_code"]]["positions"]) :
          elections[request[2]["election_code"]]["positions"][p]
              ["position_id"] = request[1]["position_id"]

\* the candidates of the position the request names: those of the first
\* position of the election that has the position_id
TargetCandidates(request) ==
    LET positions == elections[request[2]["election_code"]]["positions"]
        p == CHOOSE q \in 1..Len(positions) :
                /\ positions[q]["position_id"] = request[1]["position_id"]
                /\ \A r \in 1..(q - 1) :
                       positions[r]["position_id"]
                           # request[1]["position_id"]
    IN  positions[p]["candidates"]

CandidateIds(candidates) ==
    {candidates[c]["candidate_id"] : c \in 1..Len(candidates)}

\* the voters of a position: the members of its candidate_voters lists
PositionVoters(candidates) ==
    UNION {{candidates[c]["candidate_voters"][i] :
               i \in 1..Len(candidates[c]["candidate_voters"])} :
           c \in 1..Len(candidates)}

(***************************************************************************)
(* C1  Double-vote invariant: in every stored election and every position, *)
(* each student_id occurs at most once in the concatenation of the         *)
(* candidate_voters lists of the position's candidates.                    *)
(* Violated: a position whose candidate list names one identifier twice    *)
(* holds two candidate records, and one vote is appended to both.          *)
(***************************************************************************)
C1_DoubleVoteInvariant ==
    \A code \in DOMAIN elections :
        \A p \in 1..Len(elections[code]["positions"]) :
            NoDuplicates(Concatenation(
                elections[code]["positions"][p]["candidates"]))

(***************************************************************************)
(* C2  As claimed: a Vote by a voter whose student_id is already in a      *)
(* candidate_voters list of the target position, for a candidate of that   *)
(* position, is rejected with 403 and changes no election document.        *)
(* Violated when the voter or the candidate was deregistered after the     *)
(* first vote: the registration check comes first and answers 404.         *)
(***************************************************************************)
C2_SecondVoteForbidden ==
    \A request \in VoteRequests :
        (/\ WellFormedVote(request)
         /\ NamesPosition(request)
         /\ request[2]["candidate_id"]
                \in CandidateIds(TargetCandidates(request))
         /\ request[2]["student_id"]
                \in PositionVoters(TargetCandidates(request)))
        => /\ VoteOutcome(request).response.status = 403
           /\ ElectionsAfter(VoteOutcome(request)) = elections

(***************************************************************************)
(* C2 amended: such a Vote is always rejected and changes no election      *)
(* document; the rejection is 403 when voter and candidate are two         *)
(* different currently registered voters, and 404 when the voter or the    *)
(* candidate is not currently registered.                                  *)
(***************************************************************************)
C2_SecondVoteRejected ==
    \A request \in VoteRequests :
        (/\ WellFormedVote(request)
         /\ NamesPosition(request)
         /\ request[2]["candidate_id"]
                \in CandidateIds(TargetCandidates(request))
         /\ request[2]["student_id"]
                \in PositionVoters(TargetCandidates(request)))
        => LET outcome == VoteOutcome(request)
               student_id == request[2]["student_id"]
               candidate_id == request[2]["candidate_id"]
           IN  /\ outcome.response.status \in {403, 404}
               /\ ElectionsAfter(outcome) = elections
               /\ (Registered(student_id) /\ Registered(candidate_id)
                     /\ student_id # candidate_id)
                  => outcome.response.status = 403
               /\ (~Registered(student_id) \/ ~Registered(candidate_id))
                  => outcome.response.status = 404

\* a voter who has voted for a position votes again for another candidate
\* of the position and is answered 403
C2_Witness ==
    \E request \in VoteRequests :
        /\ WellFormedVote(request)
        /\ NamesPosition(request)
        /\ \E c \in 1..Len(TargetCandidates(request)) :
              /\ TargetCandidates(request)[c]["candidate_id"]
                    = request[2]["candidate_id"]
              /\ ~InSeq(request[2]["student_id"],
                        TargetCandidates(request)[c]["candidate_voters"])
        /\ request[2]["student_id"]
              \in PositionVoters(TargetCandidates(request))
        /\ VoteOutcome(request).response.status = 403

(***************************************************************************)
(* C3  A successful Vote appends the voter's student_id to the end of the  *)
(* candidate_voters list of the named candidate in the named position of   *)
(* the named election and changes nothing else; the returned document is   *)
(* the stored one.                                                         *)
(* Violated: a Vote for a position_id the election does not have reports   *)
(* success and appends nothing (C6).                                       *)
(***************************************************************************)
C3_VoteAppendsOnly ==
    \A request \in VoteRequests :
        LET outcome == VoteOutcome(request)
            after == ElectionsAfter(outcome)
        IN  Succeeds(outcome) =>
            /\ VotersAfter(outcome) = voters
            /\ NamesPosition(request)
            /\ LET code == request[2]["election_code"]
                   before == elections[code]["positions"]
                   p == CHOOSE q \in 1..Len(before) :
                           /\ before[q]["position_id"]
                                 = request[1]["position_id"]
                           /\ \A r \in 1..(q - 1) :
                                  before[r]["position_id"]
                                      # request[1]["position_id"]
               IN  /\ DOMAIN after = DOMAIN elections
                   /\ \A other \in DOMAIN elections \ {code} :
                          after[other] = elections[other]
                   /\ outcome.body = after[code]
                   /\ after[code] =
                        [elections[code] EXCEPT !["positions"] =
                            after[code]["positions"]]
                   /\ Len(after[code]["positions"]) = Len(before)
                   /\ \A q \in 1..Len(before) : q # p =>
                          after[code]["positions"][q] = before[q]
                   /\ after[code]["positions"][p] =
                        [before[p] EXCEPT !["candidates"] =
                            after[code]["positions"][p]["candidates"]]
                   /\ Len(after[code]["positions"][p]["candidates"])
                         = Len(before[p]["candidates"])
                   /\ \A c \in 1..Len(before[p]["candidates"]) :
                          after[code]["positions"][p]["candidates"][c] =
                            IF before[p]["candidates"][c]["candidate_id"]
                                  = request[2]["candidate_id"]
                            THEN [before[p]["candidates"][c] EXCEPT
                                    !["candidate_voters"] =
                                        Append(@, request[2]["student_id"])]
                            ELSE before[p]["candidates"][c]
                   /\ request[2]["candidate_id"]
                         \in CandidateIds(before[p]["candidates"])

(***************************************************************************)
(* C4  A Vote that passes step 1 and whose student_id or candidate_id does *)
(* not refer to a stored voter record with is_registered true is rejected  *)
(* with 404 and changes no candidate_voters list; and no Vote request at   *)
(* all changes an election unless voter and candidate are both registered. *)
(***************************************************************************)
C4_UnregisteredVoteRejected ==
    \A request \in VoteRequests :
        LET outcome == VoteOutcome(request)
        IN  /\ (/\ WellFormedVote(request)
                /\ \/ ~Registered(request[2]["student_id"])
                   \/ ~Registered(request[2]["candidate_id"]))
               => /\ outcome.response.status = 404
                  /\ ElectionsAfter(outcome) = elections
            /\ ElectionsAfter(outcome) # elections
               => /\ Registered(request[2]["student_id"])
                  /\ Registered(request[2]["candidate_id"])

\* a voter deregistered before the vote votes for a registered candidate of
\* a position they have not voted for, and is answered 404
C4_Witness ==
    \E request \in VoteRequests :
        /\ WellFormedVote(request)
        /\ NamesPosition(request)
        /\ Stored(request[2]["student_id"])
        /\ ~Registered(request[2]["student_id"])
        /\ Registered(request[2]["candidate_id"])
        /\ request[2]["candidate_id"]
              \in CandidateIds(TargetCandidates(request))
        /\ request[2]["student_id"]
              \notin PositionVoters(TargetCandidates(request))
        /\ VoteOutcome(request).response
              = Response(404, "Voter or candidate not registered!")

(***************************************************************************)
(* C5  As claimed: a Vote for a candidate_id that is not in the target     *)
(* position's candidate list fails with the "has not been registered for   *)
(* the position" message and records no vote, whether or not candidate_id  *)
(* is a registered voter.                                                  *)
(* Violated when candidate_id is not a registered voter: the registration  *)
(* check comes first and answers "Voter or candidate not registered!".     *)
(***************************************************************************)
C5_NotACandidateMessage ==
    \A request \in VoteRequests :
        (/\ WellFormedVote(request)
         /\ NamesPosition(request)
         /\ Registered(request[2]["student_id"])
         /\ request[2]["student_id"] # request[2]["candidate_id"]
         /\ request[2]["candidate_id"]
                \notin CandidateIds(TargetCandidates(request)))
        => /\ VoteOutcome(request).response.message
                 = "has not been registered for the position!"
           /\ ElectionsAfter(VoteOutcome(request)) = elections

(***************************************************************************)
(* C5 amended: such a Vote always fails and records no vote; it fails with *)
(* the "has not been registered for the position" message when voter and   *)
(* candidate_id are two different registered voters, and with 404 (voter   *)
(* or candidate not registered) when candidate_id or the voter is not a    *)
(* registered voter: the outcome depends on the candidate's registration.  *)
(***************************************************************************)
C5_NotACandidateRejected ==
    \A request \in VoteRequests :
        (/\ WellFormedVote(request)
         /\ NamesPosition(request)
         /\ request[2]["candidate_id"]
                \notin CandidateIds(TargetCandidates(request)))
        => LET outcome == VoteOutcome(request)
               student_id == request[2]["student_id"]
               candidate_id == request[2]["candidate_id"]
           IN  /\ ~Succeeds(outcome)
               /\ ElectionsAfter(outcome) = elections
               /\ (Registered(student_id) /\ Registered(candidate_id)
                     /\ student_id # candidate_id)
                  => outcome.response.message
                        = "has not been registered for the position!"
               /\ (~Registered(student_id) \/ ~Registered(candidate_id))
                  => /\ outcome.response.status = 404
                     /\ outcome.response.message
                           \in {"Voter or candidate not registered!",
                                "No voter has been registered!"}

\* a registered voter votes for a registered voter who is not a candidate
\* of the position, and is answered with the message
C5_Witness ==
    \E request \in VoteRequests :
        /\ WellFormedVote(request)
        /\ NamesPosition(request)
        /\ Registered(request[2]["student_id"])
        /\ Registered(request[2]["candidate_id"])
        /\ request[2]["candidate_id"]
              \notin CandidateIds(TargetCandidates(request))
        /\ VoteOutcome(request).response.message
              = "has not been registered for the position!"

(***************************************************************************)
(* C6  A Vote that names a stored election and a position_id that matches  *)
(* no position of it fails with 404 and leaves the election unchanged.     *)
(* Violated: the position loop ends without a match and the handler        *)
(* writes the election back and returns it with status 200.                *)
(***************************************************************************)
C6_UnknownPositionNotFound ==
    \A request \in VoteRequests :
        (/\ WellFormedVote(request)
         /\ NamesElection(request)
         /\ ~NamesPosition(request))
        => /\ VoteOutcome(request).response.status = 404
           /\ ~Succeeds(VoteOutcome(request))
           /\ ElectionsAfter(VoteOutcome(request)) = elections

(***************************************************************************)
(* C7  Register with a student_id for which a voter record is already      *)
(* stored fails with 400 (Conflict) and leaves the stored record           *)
(* unchanged.                                                              *)
(* Violated: key_is_unique never reports student_id (a record conflicts    *)
(* only if its student_id differs), so the record is overwritten.          *)
(***************************************************************************)
C7_ReRegisterConflict ==
    \A data \in RegisterPayloads :
        (Has(data, "student_id") /\ Stored(data["student_id"]))
        => /\ register_voter(voters, data).response.status = 400
           /\ VotersAfter(register_voter(voters, data)) = voters

(***************************************************************************)
(* C8  Email uniqueness: no two stored voter records with different        *)
(* student_id have the same email; a Register or an Update whose email is  *)
(* that of a stored record with another student_id does not succeed and    *)
(* persists nothing.                                                       *)
(***************************************************************************)
EmailTaken(data) ==
    /\ Has(data, "student_id")
    /\ Has(data, "email")
    /\ \E k \in DOMAIN voters :
          /\ voters[k]["email"] = data["email"]
          /\ voters[k]["student_id"] # data["student_id"]

C8_EmailUnique ==
    /\ \A k1, k2 \in DOMAIN voters :
          voters[k1]["student_id"] # voters[k2]["student_id"]
          => voters[k1]["email"] # voters[k2]["email"]
    /\ \A data \in RegisterPayloads :
          EmailTaken(data)
          => /\ ~Succeeds(register_voter(voters, data))
             /\ VotersAfter(register_voter(voters, data)) = voters
    /\ \A data \in UpdatePayloads :
          EmailTaken(data)
          => /\ ~Succeeds(update_voter(voters, data))
             /\ VotersAfter(update_voter(voters, data)) = voters

\* an Update of a registered voter to the email of a deregistered voter, and
\* a Register of a new voter with that email, are both answered 400
C8_Witness ==
    /\ \E data \in UpdatePayloads :
          /\ EmailTaken(data)
          /\ Registered(data["student_id"])
          /\ TruthyFlag(data, "is_registered")
          /\ \E k \in DOMAIN voters :
                /\ voters[k]["email"] = data["email"]
                /\ voters[k]["student_id"] # data["student_id"]
                /\ voters[k]["is_registered"] = FALSE
          /\ update_voter(voters, data).response
                = Response(400, "already exists!")
    /\ \E data \in RegisterPayloads :
          /\ Has(data, "student_id")
          /\ ~Stored(data["student_id"])
          /\ EmailTaken(data)
          /\ register_voter(voters, data).response
                = Response(400, "already exists!")

(***************************************************************************)
(* C9  Deregister by a year group sets is_registered to false on exactly   *)
(* the stored voters whose last four student_id digits are the year group  *)
(* and changes no other record and no other field; Deregister by a year    *)
(* group or by a student_id that matches no record fails with 404 and      *)
(* changes nothing.                                                        *)
(***************************************************************************)
\* the value the request deregisters by
DeregisterValue(data) ==
    IF Truthy(data, "student_id")
    THEN data["student_id"] ELSE data["year_group"]

\* four decimal digits that form a year not before the founding year
IsYearGroup(value) ==
    /\ Len(value) = 4
    /\ \A i \in 1..4 : value[i] \in Digits
    /\ 1000 * DigitValue[value[1]] + 100 * DigitValue[value[2]]
          + 10 * DigitValue[value[3]] + DigitValue[value[4]]
       >= FIRST_YEAR_GROUP

IsStudentId(value) ==
    Len(value) = 8 /\ \A i \in 1..8 : value[i] \in Digits

Cohort(year_group) ==
    {k \in DOMAIN voters :
        SubSeq(voters[k]["student_id"], 5, 8) = year_group}

C9_DeregisterCohort ==
    \A data \in DeregisterPayloads :
        (Truthy(data, "student_id") \/ Truthy(data, "year_group")) =>
        LET value == DeregisterValue(data)
            outcome == deregister_voter(voters, data)
        IN  /\ (IsYearGroup(value) /\ Cohort(value) # {})
               => /\ Succeeds(outcome)
                  /\ VotersAfter(outcome) =
                        [k \in DOMAIN voters |->
                            IF k \in Cohort(value)
                            THEN [voters[k] EXCEPT
                                    !["is_registered"] = FALSE]
                            ELSE voters[k]]
            /\ (IsYearGroup(value) /\ Cohort(value) = {})
               => /\ outcome.response.status = 404
                  /\ VotersAfter(outcome) = voters
            /\ (IsStudentId(value) /\ ~Stored(value))
               => /\ outcome.response.status = 404
                  /\ VotersAfter(outcome) = voters

\* a cohort of two stored voters, one of them registered, is deregistered
\* while a registered voter of another year group is stored
C9_Witness ==
    \E data \in DeregisterPayloads :
        /\ DOMAIN data = {"year_group"}
        /\ IsYearGroup(data["year_group"])
        /\ Cardinality(Cohort(data["year_group"])) >= 2
        /\ \E k \in Cohort(data["year_group"]) :
              voters[k]["is_registered"] = TRUE
        /\ \E k \in DOMAIN voters \ Cohort(data["year_group"]) :
              voters[k]["is_registered"] = TRUE
        /\ Succeeds(deregister_voter(voters, data))
        /\ VotersAfter(deregister_voter(voters, data)) # voters

(***************************************************************************)
(* C10  Update voter on a student_id whose stored record has is_registered *)
(* false fails and changes no record; Update voter on a student_id whose   *)
(* stored record is active, with a valid payload (well-formed fields, an   *)
(* email no other voter has, is_registered true), replaces the stored      *)
(* record by the payload, and the stored record has is_registered true.    *)
(***************************************************************************)
ValidUpdatePayload(data) ==
    /\ data \in {SetRegistered(p, TRUE) : p \in ValidVoterPayloads}
    /\ ~EmailTaken(data)

C10_UpdateVoter ==
    \A data \in UpdatePayloads :
        Has(data, "student_id") =>
        LET student_id == data["student_id"]
            outcome == update_voter(voters, data)
        IN  /\ (Stored(student_id) /\ ~Registered(student_id))
               => /\ ~Succeeds(outcome)
                  /\ VotersAfter(outcome) = voters
            /\ (Registered(student_id) /\ ValidUpdatePayload(data))
               => /\ Succeeds(outcome)
                  /\ VotersAfter(outcome) =
                        [k \in DOMAIN voters |->
                            IF voters[k]["student_id"] = student_id
                            THEN data ELSE voters[k]]
                  /\ VotersAfter(outcome)[student_id]["is_registered"]
                        = TRUE

\* one stored voter is inactive and an Update of it with a valid payload is
\* answered 404; another is active and an Update changes its email
C10_Witness ==
    /\ \E data \in UpdatePayloads :
          /\ ValidUpdatePayload(data)
          /\ Stored(data["student_id"])
          /\ ~Registered(data["student_id"])
          /\ update_voter(voters, data).response
                = Response(404, "Voter is not registered.")
    /\ \E data \in UpdatePayloads :
          /\ ValidUpdatePayload(data)
          /\ Registered(data["student_id"])
          /\ voters[data["student_id"]]["email"] # data["email"]
          /\ Succeeds(update_voter(voters, data))
          /\ VotersAfter(update_voter(voters, data))[data["student_id"]]
                = data

(***************************************************************************)
(* C11  Update voter with a valid payload whose student_id matches no      *)
(* stored voter record behaves like a create: whenever the request reports *)
(* success, a record for that student_id with is_registered true is stored *)
(* afterwards, on an empty registry and on one that holds other voters.    *)
(* Violated on a registry that holds other voters: the loop over the       *)
(* stored records finds no record to replace, every record read is written *)
(* back as it was, and the payload is returned as a success.               *)
(***************************************************************************)
C11_UpdateCreates ==
    \A data \in UpdatePayloads :
        (/\ Has(data, "student_id")
         /\ ValidUpdatePayload(data)
         /\ ~Stored(data["student_id"])
         /\ Succeeds(update_voter(voters, data)))
        => LET after == VotersAfter(update_voter(voters, data))
           IN  /\ data["student_id"] \in DOMAIN after
               /\ after[data["student_id"]]["student_id"]
                     = data["student_id"]
               /\ after[data["student_id"]]["is_registered"] = TRUE

(***************************************************************************)
(* C12  Every Register, Deregister, Update voter, Create election, Delete  *)
(* election and Vote request with a non-empty payload ends in a response,  *)
(* never in an unhandled exception.                                        *)
(* Violated: a Register or Update whose year group is below 2002 gets a    *)
(* bare response from valid_voter_info that the handler then subscripts    *)
(* (TypeError); an Update without is_registered raises KeyError; a Vote    *)
(* without election_code reaches the election loop with election_code      *)
(* unassigned (UnboundLocalError); a Create election while an election is  *)
(* stored passes the list of documents to json.loads (TypeError).          *)
(***************************************************************************)
Unhandled(outcome) == outcome.response.status = 500

C12_NoUnhandledException ==
    /\ \A data \in RegisterPayloads \ {EmptyPayload} :
          ~Unhandled(register_voter(voters, data))
    /\ \A data \in DeregisterPayloads \ {EmptyPayload} :
          ~Unhandled(deregister_voter(voters, data))
    /\ \A data \in UpdatePayloads \ {EmptyPayload} :
          ~Unhandled(update_voter(voters, data))
    /\ \A data \in CreatePayloads \ {EmptyPayload} :
          ~Unhandled(create_election(elections, data))
    /\ \A data \in DeletePayloads \ {EmptyPayload} :
          ~Unhandled(delete_election(elections, data))
    /\ \A request \in VoteRequests :
          request[2] # EmptyPayload => ~Unhandled(VoteOutcome(request))

(***************************************************************************)
(* C14  Filtered Retrieve with valid filters returns, in store order,      *)
(* exactly the stored voters that satisfy every supplied filter (string    *)
(* fields: case-insensitive equality or prefix; year_group: the last four  *)
(* digits of student_id; is_registered: the boolean), and 404 when that    *)
(* set or the registry is empty; with no filter it returns every voter.    *)
(***************************************************************************)
\* the filters a request supplies
SuppliedFilters(args) ==
    {key \in DOMAIN args : args[key] # <<>>}

\* the same letters, whatever their case
SameLetter(a, b) ==
    \/ a = b
    \/ \E u \in 1..Len(UpperCase) :
          {a, b} = {UpperCase[u], LowerCase[u]}

\* value is, letter case aside, the beginning (or the whole) of field
PrefixIgnoringCase(value, field) ==
    /\ Len(value) <= Len(field)
    /\ \A i \in 1..Len(value) : SameLetter(value[i], field[i])

ValidFilter(key, value) ==
    CASE key = "student_id" -> IsStudentId(value)
      [] key \in {"firstname", "lastname"} ->
            Len(value) > 0 /\ \A i \in 1..Len(value) : value[i] \in Letters
      [] key = "email" ->
            /\ Len(value) >= Len(EmailSuffix)
            /\ \A i \in 1..Len(EmailSuffix) :
                  value[Len(value) - Len(EmailSuffix) + i] = EmailSuffix[i]
      [] key = "year_group" -> IsYearGroup(value)
      [] key = "is_registered" -> value \in {ArgTrue, ArgFalse}

Satisfies(voter, key, value) ==
    CASE key = "year_group" -> SubSeq(voter["student_id"], 5, 8) = value
      [] key = "is_registered" ->
            voter["is_registered"] = (value = ArgTrue)
      [] OTHER -> PrefixIgnoringCase(value, voter[key])

\* the stored voters, in the order of their document ids
StoredVoters ==
    LET ids == DOMAIN voters
        Before(k) == {j \in ids : StringLess(j, k)}
    IN  [i \in 1..Cardinality(ids) |->
            voters[CHOOSE k \in ids : Cardinality(Before(k)) = i - 1]]

C14_FilteredRetrieve ==
    \A args \in RetrieveVotersArgs :
        (\A key \in SuppliedFilters(args) : ValidFilter(key, args[key]))
        => LET outcome == retrieve_voters(voters, args)
               expected ==
                   SelectSeq(StoredVoters,
                       LAMBDA voter :
                           \A key \in SuppliedFilters(args) :
                               Satisfies(voter, key, args[key]))
           IN  /\ outcome.voters_set = NoWrites
               /\ outcome.elections_set = NoWrites
               /\ outcome.elections_delete = {}
               /\ expected = <<>> => outcome.response.status = 404
               /\ expected # <<>> => /\ outcome.response.status = 200
                                     /\ outcome.body = expected

\* John, Adejo and a voter of another year group are stored: firstname=Jo
\* returns John and not Adejo, and firstname=Jo with year_group=2024
\* returns fewer voters than firstname=Jo alone
C14_Witness ==
    /\ \E k \in DOMAIN voters : voters[k]["firstname"] = Adejo
    /\ LET outcome == retrieve_voters(voters, [firstname |-> Jo])
           narrowed == retrieve_voters(voters,
                           [firstname |-> Jo, year_group |-> Year2024])
       IN  /\ outcome.response.status = 200
           /\ Len(outcome.body) = 2
           /\ \E i \in 1..Len(outcome.body) :
                 outcome.body[i]["firstname"] = John
           /\ \A i \in 1..Len(outcome.body) :
                 outcome.body[i]["firstname"] # Adejo
           /\ narrowed.response.status = 200
           /\ Len(narrowed.body) = 1

(***************************************************************************)
(* C13  The dispatcher implements the route table: a POST whose path       *)
(* contains elections and vote reaches Cast vote, a GET whose path         *)
(* contains voters reaches Filtered retrieve, the other six rows reach     *)
(* their operation, and a path with neither voters nor elections gets the  *)
(* 404 invalid-endpoint response.                                          *)
(* Violated: the POST branch for elections comes before the vote branch,   *)
(* so a Cast vote request reaches create_election; and GET voters calls    *)
(* the helper get_voters with the request, not retrieve_voters.            *)
(***************************************************************************)
\* the operation the route table names for a request, and what it returns
RouteTable(request) ==
    LET OnVoters == contains(request.path, VotersWord)
        OnElections == contains(request.path, ElectionsWord)
        OnVote == OnElections /\ contains(request.path, VoteWord)
    IN  CASE request.method = "POST" /\ OnVote /\ ~OnVoters ->
                Handled("vote", vote(voters, elections, request.args,
                                     request.data))
          [] request.method = "POST" /\ OnVoters ->
                Handled("register_voter",
                        register_voter(voters, request.data))
          [] request.method = "PATCH" /\ OnVoters ->
                Handled("deregister_voter",
                        deregister_voter(voters, request.data))
          [] request.method = "PUT" /\ OnVoters ->
                Handled("update_voter", update_voter(voters, request.data))
          [] request.method = "GET" /\ OnVoters ->
                Handled("retrieve_voters",
                        retrieve_voters(voters, request.args))
          [] request.method = "POST" /\ OnElections /\ ~OnVote
                /\ ~OnVoters ->
                Handled("create_election",
                        create_election(elections, request.data))
          [] request.method = "GET" /\ OnElections /\ ~OnVoters ->
                Handled("retrieve_election",
                        retrieve_election(elections, request.args))
          [] request.method = "DELETE" /\ OnElections /\ ~OnVoters ->
                Handled("delete_election",
                        delete_election(elections, request.data))
          [] ~OnVoters /\ ~OnElections ->
                Handled("Invalid endpoint!",
                        Return(404, "Invalid endpoint!", <<>>))
          [] OTHER -> Handled("no row", Return(0, "no row", <<>>))

C13_RouteTable ==
    \A request \in DispatchRequests :
        RouteTable(request).handler # "no row"
        => voting_system(voters, elections, request) = RouteTable(request)

(***************************************************************************)
(* C15  A successful Create election stores, under its election_code, a    *)
(* document in which every position keeps its submitted position fields    *)
(* and its candidates list holds, in submitted order, one record per       *)
(* submitted candidate identifier, with that candidate_id and an empty     *)
(* candidate_voters list.                                                  *)
(***************************************************************************)
\* the stored document is the payload with its candidates denormalised
Denormalised(document, data) ==
    /\ DOMAIN document = DOMAIN data
    /\ \A field \in DOMAIN data \ {"positions"} :
          document[field] = data[field]
    /\ Len(document["positions"]) = Len(data["positions"])
    /\ \A p \in 1..Len(data["positions"]) :
          LET stored == document["positions"][p]
              submitted == data["positions"][p]
          IN  /\ DOMAIN stored = DOMAIN submitted
              /\ \A field \in DOMAIN submitted \ {"candidates"} :
                    stored[field] = submitted[field]
              /\ Len(stored["candidates"]) = Len(submitted["candidates"])
              /\ \A c \in 1..Len(submitted["candidates"]) :
                    /\ stored["candidates"][c]["candidate_id"]
                          = submitted["candidates"][c]
                    /\ stored["candidates"][c]["candidate_voters"] = <<>>

C15_CreateDenormalises ==
    \A data \in CreatePayloads :
        LET outcome == create_election(elections, data)
            after == ElectionsAfter(outcome)
        IN  Succeeds(outcome) =>
            /\ data["election_code"] \in DOMAIN after
            /\ Denormalised(after[data["election_code"]], data)
            /\ outcome.body = after[data["election_code"]]
            /\ \A code \in DOMAIN elections \ {data["election_code"]} :
                  code \in DOMAIN after /\ after[code] = elections[code]
            /\ VotersAfter(outcome) = voters

\* a Create election has stored the election whose second position names
\* one candidate twice: two records, both with an empty list
C15_Witness ==
    \E data \in ValidElectionPayloads :
        /\ data["positions"] = PositionsDup
        /\ data["election_code"] \in DOMAIN elections
        /\ Denormalised(elections[data["election_code"]], data)
        /\ Len(elections[data["election_code"]]["positions"][2]
                  ["candidates"]) = 2

(***************************************************************************)
(* C16  Create election with an election_code or an election_name equal to *)
(* that of a stored election is rejected and the stored elections, with    *)
(* the votes recorded in them, are unchanged; no two stored elections      *)
(* share an election_name, and no Create replaces a stored election.       *)
(***************************************************************************)
\* the payload has the code or the name of a stored election
ElectionTaken(data) ==
    \E code \in DOMAIN elections :
        \/ Has(data, "election_code")
              /\ elections[code]["election_code"] = data["election_code"]
        \/ Has(data, "election_name")
              /\ elections[code]["election_name"] = data["election_name"]

\* some vote is recorded in the election
HasVotes(election) ==
    \E p \in 1..Len(election["positions"]) :
        PositionVoters(election["positions"][p]["candidates"]) # {}

C17_DeleteElection ==
    \A data \in DeletePayloads :
        Truthy(data, "election_code") =>
        LET code == data["election_code"]
            outcome == delete_election(elections, data)
            after == ElectionsAfter(outcome)
        IN  /\ VotersAfter(outcome) = voters
            /\ code \in DOMAIN elections
               => /\ Succeeds(outcome)
                  /\ DOMAIN after = DOMAIN elections \ {code}
                  /\ \A other \in DOMAIN after :
                        after[other] = elections[other]
                  /\ retrieve_election(after, [election_code |-> code])
                        .response.status = 404
            /\ code \notin DOMAIN elections
               => /\ outcome.response.status = 404
                  /\ ~Succeeds(outcome)
                  /\ after = elections

(***************************************************************************)
(* C18  Retrieve election(s) and Filtered Retrieve are read-only: they     *)
(* set and delete no document, and two Retrieve requests without an        *)
(* election_code with no mutation in between return the same result; with  *)
(* an election_code, Retrieve returns the stored election with that code   *)
(* if there is one and 404 otherwise.                                      *)
(***************************************************************************)
ReadOnly(outcome) ==
    /\ outcome.voters_set = NoWrites
    /\ outcome.elections_set = NoWrites
    /\ outcome.elections_delete = {}
    /\ VotersAfter(outcome) = voters
    /\ ElectionsAfter(outcome) = elections

C19_IdentifierCodec ==
    codec.pc = "return" =>
        LET student_id == codec.student_id
        IN  IF Len(student_id) = 8 /\ \A i \in 1..8 : student_id[i] \in Digits
            THEN codec.result =
                    [valid |-> TRUE,
                     user_id |-> [i \in 1..4 |-> student_id[i]],
                     year_group |-> [i \in 1..4 |-> student_id[i + 4]]]
            ELSE codec.result = [valid |-> FALSE]

(***************************************************************************)
(* C20  Lost-update hazard on concurrent votes: when Vote requests for one *)
(* position interleave between their read and their write, a state is      *)
(* reachable in which a request that returned success has no entry in the  *)
(* stored candidate_voters lists, and one in which two requests by the     *)
(* same voter both returned success.  Both happen only through a write     *)
(* made on a stale read: without one, every successful vote is stored and  *)
(* no voter has two successful votes for the position.                     *)
(***************************************************************************)
Returned(p) == votes[p].pc = "done"

ReturnedSuccess(p) ==
    Returned(p) /\ votes[p].response.message \in SuccessMessages

StaleWrite(p) == Returned(p) /\ votes[p].stale

VoterOf(p) == votes[p].request[2]["student_id"]

\* the voter of the request is in no candidate_voters list of the position
NoEntry(p) ==
    VoterOf(p) \notin PositionVoters(TargetCandidates(votes[p].request))

C20_LostUpdateByRace ==
    /\ \A p \in VoteProcesses :
          (ReturnedSuccess(p) /\ NoEntry(p))
          => \E q \in VoteProcesses \ {p} : StaleWrite(q)
    /\ \A p, q \in VoteProcesses :
          (p # q /\ ReturnedSuccess(p) /\ ReturnedSuccess(q)
             /\ VoterOf(p) = VoterOf(q))
          => \E r \in VoteProcesses : StaleWrite(r)

\* two requests of one voter have both returned success, and the voter has
\* no entry in the stored lists of the position
C20_Witness ==
    \E p, q \in VoteProcesses :
        /\ p # q
        /\ ReturnedSuccess(p)
        /\ ReturnedSuccess(q)
        /\ VoterOf(p) = VoterOf(q)
        /\ NoEntry(p)

(***************************************************************************)
(* C25  The registration check of Vote passes whenever student_id and      *)
(* candidate_id each refer to a stored voter with is_registered true, also *)
(* when they are equal: a registered candidate of the position who has not *)
(* voted for it can vote for themself, and the vote is recorded.           *)
(* Violated: get_voters counts the registered records whose student_id is  *)
(* in the list and wants as many as the list is long; for the list of one  *)
(* identifier twice it finds one record, not two, and answers False.       *)
(***************************************************************************)
C25_SelfVoteRecorded ==
    \A request \in VoteRequests :
        (/\ WellFormedVote(request)
         /\ NamesPosition(request)
         /\ Registered(request[2]["student_id"])
         /\ Registered(request[2]["candidate_id"])
         /\ request[2]["candidate_id"]
               \in CandidateIds(TargetCandidates(request))
         /\ request[2]["student_id"]
               \notin PositionVoters(TargetCandidates(request)))
        => LET outcome == VoteOutcome(request)
               code == request[2]["election_code"]
               after == ElectionsAfter(outcome)
           IN  /\ outcome.response.message
                     # "Voter or candidate not registered!"
               /\ Succeeds(outcome)
               /\ \E p \in 1..Len(after[code]["positions"]) :
                     /\ after[code]["positions"][p]["position_id"]
                           = request[1]["position_id"]
                     /\ request[2]["student_id"] \in
                           PositionVoters(
                               after[code]["positions"][p]["candidates"])

(***************************************************************************)
(* C23  State unchanged on error: every Register, Deregister, Update       *)
(* voter, Create election, Delete election and Vote request that does not  *)
(* report success leaves the voters collection and the elections           *)
(* collection exactly as they were; no failure path runs after a write.    *)
(***************************************************************************)
FailsUnchanged(outcome) == ~Succeeds(outcome) => NothingChanged(outcome)

C23_UnchangedOnError ==
    /\ \A data \in RegisterPayloads :
          FailsUnchanged(register_voter(voters, data))
    /\ \A data \in DeregisterPayloads :
          FailsUnchanged(deregister_voter(voters, data))
    /\ \A data \in UpdatePayloads :
          FailsUnchanged(update_voter(voters, data))
    /\ \A data \in CreatePayloads :
          FailsUnchanged(create_election(elections, data))
    /\ \A data \in DeletePayloads :
          FailsUnchanged(delete_election(elections, data))
    /\ \A request \in VoteRequests :
          FailsUnchanged(VoteOutcome(request))

\* with voters and an election with votes stored, a request of every
\* kind fails: 400, 404, 404, 400, 400 and 403
C23_Witness ==
    /\ \E code \in DOMAIN elections : HasVotes(elections[code])
    /\ \E data \in RegisterPayloads :
          register_voter(voters, data).response
              = Response(400, "already exists!")
    /\ \E data \in DeregisterPayloads :
          deregister_voter(voters, data).response.status = 404
    /\ \E data \in UpdatePayloads :
          update_voter(voters, data).response
              = Response(404, "Voter is not registered.")
    /\ \E data \in CreatePayloads :
          create_election(elections, data).response.status = 400
    /\ \E data \in DeletePayloads :
          delete_election(elections, data).response.status = 400
    /\ \E request \in VoteRequests :
          VoteOutcome(request).response.status = 403

(***************************************************************************)
(* C22  Voted is terminal: once a student_id is in a candidate_voters list *)
(* of a position it stays in that list, at the same index, through every   *)
(* later Vote, Register, Deregister, Update voter, Create election and     *)
(* retrieve request handled one at a time; the lists only grow by          *)
(* appending.  Only a Delete election removes votes, with the election.    *)
(***************************************************************************)
\* every list of before is the beginning of the list in the same place
VotesKept(before, after) ==
    \A code \in DOMAIN before :
        /\ code \in DOMAIN after
        /\ Len(after[code]["positions"]) = Len(before[code]["positions"])
        /\ \A p \in 1..Len(before[code]["positions"]) :
              LET old == before[code]["positions"][p]["candidates"]
                  new == after[code]["positions"][p]["candidates"]
              IN  /\ Len(new) = Len(old)
                  /\ \A c \in 1..Len(old) :
                        /\ new[c]["candidate_id"] = old[c]["candidate_id"]
                        /\ Len(new[c]["candidate_voters"])
                              >= Len(old[c]["candidate_voters"])
                        /\ \A i \in 1..Len(old[c]["candidate_voters"]) :
                              new[c]["candidate_voters"][i]
                                  = old[c]["candidate_voters"][i]

\* the step removes no election document
NoElectionDeleted == DOMAIN elections \subseteq DOMAIN elections'

C22_VotedIsTerminal ==
    [][NoElectionDeleted => VotesKept(elections, elections')]_vars

\* a candidate has two votes, and the first voter and the candidate have
\* both been deregistered since
C22_Witness ==
    \E code \in DOMAIN elections :
        \E p \in 1..Len(elections[code]["positions"]) :
            \E c \in 1..Len(elections[code]["positions"][p]["candidates"]) :
                LET candidate ==
                        elections[code]["positions"][p]["candidates"][c]
                IN  /\ Len(candidate["candidate_voters"]) = 2
                    /\ Stored(candidate["candidate_voters"][1])
                    /\ ~Registered(candidate["candidate_voters"][1])
                    /\ Stored(candidate["candidate_id"])
                    /\ ~Registered(candidate["candidate_id"])

(***************************************************************************)
(* C26  Voter records are never removed and votes reference stored voters: *)
(* the set of student_ids with a record in the voters collection never     *)
(* shrinks under any request, and every student_id in a candidate_voters   *)
(* list has a record in the voters collection.                             *)
(***************************************************************************)
\* the student_ids found in the candidate_voters lists of the elections
VotersOfVotes ==
    UNION {UNION {PositionVoters(
                      elections[code]["positions"][p]["candidates"]) :
                  p \in 1..Len(elections[code]["positions"])} :
           code \in DOMAIN elections}

VotesReferenceStored == \A student_id \in VotersOfVotes : Stored(student_id)

RecordsNeverRemoved == [][DOMAIN voters \subseteq DOMAIN voters']_vars

C26_VotesReferenceVoters == []VotesReferenceStored /\ RecordsNeverRemoved

\* a vote is stored whose voter has been deregistered since, and the
\* voter's record is still there
C26_Witness ==
    /\ Cardinality(DOMAIN voters) >= 2
    /\ \E student_id \in VotersOfVotes :
          /\ student_id \in DOMAIN voters
          /\ voters[student_id]["is_registered"] = FALSE

(***************************************************************************)
(* C24  Stored-voter validity: after any sequence of Register, Update      *)
(* voter and Deregister requests every stored voter record is keyed by its *)
(* own student_id, its student_id is 8 decimal digits whose last four      *)
(* form a year group of at least FIRST_YEAR_GROUP, its email ends with the *)
(* institution suffix, and its firstname and lastname are alphabetic; no   *)
(* request whose payload violates one of these rules persists a record.    *)
(***************************************************************************)
Alphabetic(value) == value # JsonTrue /\ isalpha(value)

DecimalDigits(s) == \A i \in 1..Len(s) : s[i] \in Digits

ValidVoter(record) ==
    /\ Len(record["student_id"]) = 8
    /\ DecimalDigits(record["student_id"])
    /\ int(SubSeq(record["student_id"], 5, 8)) >= FIRST_YEAR_GROUP
    /\ endswith(record["email"], EmailSuffix)
    /\ Alphabetic(record["firstname"])
    /\ Alphabetic(record["lastname"])

C24_StoredVoterValid ==
    /\ \A k \in DOMAIN voters :
          voters[k]["student_id"] = k /\ ValidVoter(voters[k])
    /\ \A data \in RegistryPayloads :
          ~ValidVoter(data)
              => register_voter(voters, data).voters_set = NoWrites
    /\ \A data \in RegistryUpdatePayloads :
          ~ValidVoter(data)
              => update_voter(voters, data).voters_set = NoWrites

(***************************************************************************)
(* C21  Each successful mutation writes only the document it targets:      *)
(* Update voter writes only the voter record of the payload's student_id,  *)
(* so that under interleaving a Deregister of a different voter is never   *)
(* overwritten with the copy the Update read earlier.                      *)
(***************************************************************************)
\* the documents an Update in progress is about to write
WritesOnlyTarget ==
    \A w \in UpdateProcesses :
        updates[w].pc = "read"
            => DOMAIN updates[w].writes
                  \subseteq {updates[w].request["student_id"]}

\* the write of an Update leaves the records of the other voters as they are
NoStaleOverwrite ==
    \A w \in UpdateProcesses :
        (updates[w].pc = "read" /\ updates'[w].pc = "done")
            => \A k \in DOMAIN voters \ {updates[w].request["student_id"]} :
                  voters'[k] = voters[k]

C21_WritesOnlyTarget == []WritesOnlyTarget /\ [][NoStaleOverwrite]_vars

====
